---- MODULE Spec2Model ----
(***************************************************************************)
(* Model of internal/database/crud.go: the user_entities and lst_entities  *)
(* tables of the SQLite store, the filesystem facts os.Stat reports, and    *)
(* the functions that locate, reconcile, create and delete entity rows.     *)
(* Every function of the source is one action; the statements it issues     *)
(* are operators on the table contents.                                     *)
(***************************************************************************)
EXTENDS Integers, Sequences, FiniteSets, TLC

VARIABLES user_entities, lst_entities, markers, dirs, last,
          statErr, user_previous_names, now, prev, proc

vars == <<user_entities, lst_entities, markers, dirs, last,
          statErr, user_previous_names, now, prev, proc>>

\* the state that the entity functions called one at a time neither read
\* nor write: the paths on which os.Stat fails with an error other than
\* "not exist", the user_previous_names table and the clock, the call
\* before the last one, and the callers that run statement by statement
aux == <<statErr, user_previous_names, now, prev, proc>>

----------------------------------------------------------------------------
(* Bounds of the model *)

\* largest rowid the model lets an INSERT assign; a table holds at most
\* MaxId rows
MaxId == 2
\* the largest number of user_previous_names rows, the latest clock reading
MaxHist == 3
MaxTime == 2

\* owner ids (user_id / lst_id) the callers pass
Uids == {1, 2}
\* entity names the callers pass; "n" and "N" differ in case only
UserNames == {"n", "m"}
LstNames == {"n", "N", "m"}
\* absolute directories; "/a" and "/A" differ in case only
AbsDirs == {"/a", "/A", "/b", "/c"}
\* paths the callers pass: absolute ones, and "b" relative to the cwd "/"
RawPaths == {"/a", "/A", "b", "/c"}
\* the directories and the paths of the list-entity calls
LstDirs == {"/a", "/b", "/c"}
LstPaths == {"/a", "b", "/c"}
\* which statement of a call the store fails with an I/O error (0: none)
FailAt == 0 .. 3

----------------------------------------------------------------------------
(* Paths, collation and names *)

\* filepath.Abs with the working directory "/": a relative path is joined
\* to the working directory, an absolute one is returned as it is
Abs(p) == IF p = "b" THEN "/b" ELSE p

\* the folding of COLLATE NOCASE: ASCII upper case to lower case
NoCaseFold(d) == IF d = "/A" THEN "/a" ELSE d

\* parent_dir = ? under COLLATE NOCASE
NoCaseEq(d1, d2) == NoCaseFold(d1) = NoCaseFold(d2)

\* the simple case folding of a name
NameFold(n) == IF n = "N" THEN "n" ELSE n

\* strings.EqualFold
EqualFold(a, b) == NameFold(a) = NameFold(b)

\* os.Stat(filepath.Join(dir, ".user")) returns no error
StatMarker(mk, dir) == dir \in mk

\* os.Stat(dir) returns no error
StatDir(ds, dir) == dir \in ds

\* the paths for which os.Stat returns no error: those that exist and on
\* which the call does not fail with another error (permission, I/O)
StatOk(present, failing) == present \ failing

----------------------------------------------------------------------------
(* Rows, results and store statements *)

\* the value of a NULL column and of a nil *UserEntity / *LstEntity
NULL == 0
NoRow == [id |-> NULL]

UserRow(id, uid, name, dir) ==
    [id |-> id, user_id |-> uid, name |-> name, latest_release_time |-> NULL,
     parent_dir |-> dir, media_count |-> NULL]

LstRow(id, lid, name, dir) ==
    [id |-> id, lst_id |-> lid, name |-> name, parent_dir |-> dir]

\* what a call leaves behind: the table, the returned record, the returned
\* error, and the error of the statement that failed inside the call (if any)
Outcome(rows, ret, err, failed) ==
    [rows |-> rows, ret |-> ret, err |-> err, failed |-> failed]

\* every order in which a SELECT without ORDER BY may return the rows S
Orders(S) ==
    {f \in [1 .. Cardinality(S) -> S] : \A x \in S : \E i \in DOMAIN f : f[i] = x}

SetMax(S) == CHOOSE x \in S : \A y \in S : y <= x

\* a rowid allocator that counts the rows instead of taking the largest rowid
NewRowId_Count(rows) == Cardinality(rows) + 1

\* the rowid SQLite gives an INSERT into an INTEGER PRIMARY KEY table
NewRowId(rows) == IF rows = {} THEN 1 ELSE SetMax({r.id : r \in rows}) + 1

\* SELECT * FROM user_entities WHERE user_id=?
SelectUserEntities(rows, uid) == {r \in rows : r.user_id = uid}

\* the same lookup on a column without COLLATE NOCASE
GetUserEntityByDir_CaseSensitive(rows, uid, dir) ==
    {r \in rows : r.user_id = uid /\ r.parent_dir = dir}

\* SELECT * FROM user_entities WHERE user_id=? AND parent_dir=?
GetUserEntityByDir(rows, uid, dir) ==
    {r \in rows : r.user_id = uid /\ NoCaseEq(r.parent_dir, dir)}

\* UNIQUE (user_id, parent_dir) rejects giving row `id` the directory `dir`
UserUpdateViolates(rows, id, dir) ==
    \E r \in rows, o \in rows :
        r.id = id /\ o.id # id /\ o.user_id = r.user_id /\ NoCaseEq(o.parent_dir, dir)

\* the same constraint on a column that compares byte by byte
UserInsertViolates_CaseSensitive(rows, uid, dir) ==
    \E o \in rows : o.user_id = uid /\ o.parent_dir = dir

\* UNIQUE (user_id, parent_dir) rejects a new row (uid, dir)
UserInsertViolates(rows, uid, dir) ==
    \E o \in rows : o.user_id = uid /\ NoCaseEq(o.parent_dir, dir)

\* a relocation that deletes the row and inserts it again under a new rowid
SetUserDir_Reinsert(rows, id, dir) ==
    {r \in rows : r.id # id} \cup
    {[r EXCEPT !.parent_dir = dir, !.id = NewRowId(rows)] : r \in {o \in rows : o.id = id}}

\* UPDATE user_entities SET parent_dir=? WHERE id=?
SetUserDir(rows, id, dir) ==
    {IF r.id = id THEN [r EXCEPT !.parent_dir = dir] ELSE r : r \in rows}

\* the same UPDATE written as a REPLACE that leaves the other columns to
\* their defaults
SetUserDirName_Replace(rows, id, dir, name) ==
    {IF r.id = id THEN UserRow(r.id, r.user_id, name, dir) ELSE r : r \in rows}

\* UPDATE user_entities SET parent_dir=?, name=? WHERE id=?
SetUserDirName(rows, id, dir, name) ==
    {IF r.id = id THEN [r EXCEPT !.parent_dir = dir, !.name = name] ELSE r : r \in rows}

\* the index at which a range loop first meets a row that passes its test
\* (hit[i] tells whether the i-th row passes), 0 if the loop runs to its end
FirstIndex(hit) ==
    IF \E i \in DOMAIN hit : hit[i]
    THEN CHOOSE i \in DOMAIN hit : hit[i] /\ \A j \in 1 .. (i - 1) : ~hit[j]
    ELSE 0

\* the result of one Exec: the table afterwards and the statement's error
Exec(rows, err) == [rows |-> rows, err |-> err]

\* db.Exec of UPDATE user_entities SET parent_dir=? WHERE id=?
ExecSetUserDir(rows, id, dir, ioerr) ==
    IF ioerr THEN Exec(rows, "dberr")
    ELSE IF UserUpdateViolates(rows, id, dir) THEN Exec(rows, "constraint")
    ELSE Exec(SetUserDir(rows, id, dir), "nil")

\* db.Exec of UPDATE user_entities SET parent_dir=?, name=? WHERE id=?
ExecSetUserDirName(rows, id, dir, name, ioerr) ==
    IF ioerr THEN Exec(rows, "dberr")
    ELSE IF UserUpdateViolates(rows, id, dir) THEN Exec(rows, "constraint")
    ELSE Exec(SetUserDirName(rows, id, dir, name), "nil")

\* db.NamedExec of INSERT INTO user_entities(user_id, name, parent_dir)
ExecInsertUser(rows, uid, name, dir, ioerr) ==
    IF ioerr THEN Exec(rows, "dberr")
    ELSE IF UserInsertViolates(rows, uid, dir) THEN Exec(rows, "constraint")
    ELSE Exec(rows \cup {UserRow(NewRowId(rows), uid, name, dir)}, "nil")

\* a call that returns (nil, err)
Fails(rows, err) == Outcome(rows, NoRow, err, err)

----------------------------------------------------------------------------
(* The account-entity functions *)

\* lines 39-54 and 70-81: rewrite the matched row, return it with the new values
UpdateMatchedUser(rows, e, dir, name, ioerr) ==
    LET x == ExecSetUserDirName(rows, e.id, dir, name, ioerr)
    IN  IF x.err # "nil" THEN Fails(rows, x.err)
        ELSE Outcome(x.rows, [e EXCEPT !.parent_dir = dir, !.name = name], "nil", "nil")

\* lines 85-97: insert the candidate, return it with the new rowid
InsertNewUser(rows, uid, name, dir, ioerr) ==
    LET x == ExecInsertUser(rows, uid, name, dir, ioerr)
    IN  IF x.err # "nil" THEN Fails(rows, x.err)
        ELSE Outcome(x.rows, UserRow(NewRowId(rows), uid, name, dir), "nil", "nil")

\* a scan that takes the first row without looking for its marker
MatchUserByMarker_First(ord, mk) == IF Len(ord) > 0 THEN 1 ELSE 0

\* lines 66-69 and 324-326: the first row whose stored directory has a .user file
MatchUserByMarker(ord, mk) ==
    FirstIndex([i \in DOMAIN ord |-> StatMarker(mk, ord[i].parent_dir)])

\* ord is the order in which the store returns the rows of uid; fail is the
\* number of the statement of this call that meets an I/O error
CreateOrUpdateUserEntityWithPathChange(rows, mk, uid, name, parentDir, ord, fail) ==
    LET absPath == Abs(parentDir)
        marked == StatMarker(mk, absPath)
        n == IF marked THEN 1 ELSE 0
        i == MatchUserByMarker(ord, mk)
    IN  IF marked /\ fail = 1 THEN Fails(rows, "dberr")
        ELSE IF marked /\ Len(ord) > 0
             THEN UpdateMatchedUser(rows, ord[1], absPath, name, fail = 2)
        ELSE IF fail = n + 1 THEN Fails(rows, "dberr")
        ELSE IF i > 0
             THEN UpdateMatchedUser(rows, ord[i], absPath, name, fail = n + 2)
        ELSE InsertNewUser(rows, uid, name, absPath, fail = n + 2)

\* a relocation that returns the row without issuing the UPDATE
RelocateUser_NoWrite(rows, e, dir, ioerr) ==
    Outcome(rows, [e EXCEPT !.parent_dir = dir], "nil", "nil")

\* lines 296-307 and 332-338: the UPDATE's result is dropped
RelocateUser(rows, e, dir, ioerr) ==
    LET x == ExecSetUserDir(rows, e.id, dir, ioerr)
    IN  Outcome(x.rows, [e EXCEPT !.parent_dir = dir], "nil", x.err)

LocateUserEntity(rows, mk, uid, parentDIr, ord, fail) ==
    LET absPath == Abs(parentDIr)
        marked == StatMarker(mk, absPath)
        n == IF marked THEN 1 ELSE 0
        result == GetUserEntityByDir(rows, uid, absPath)
        i == MatchUserByMarker(ord, mk)
    IN  IF marked /\ fail = 1 THEN Fails(rows, "dberr")
        ELSE IF marked /\ Len(ord) > 0
             THEN RelocateUser(rows, ord[1], absPath, fail = 2)
        ELSE IF fail = n + 1 THEN Fails(rows, "dberr")
        ELSE IF result # {}
             THEN Outcome(rows, CHOOSE r \in result : TRUE, "nil", "nil")
        ELSE IF fail = n + 2 THEN Fails(rows, "dberr")
        ELSE IF i > 0
             THEN RelocateUser(rows, ord[i], absPath, fail = n + 3)
        ELSE Outcome(rows, NoRow, "nil", "nil")

\* the plain insert; it returns only an error
CreateUserEntity(rows, uid, name, parentDir, fail) ==
    LET x == ExecInsertUser(rows, uid, name, Abs(parentDir), fail = 1)
    IN  Outcome(x.rows, NoRow, x.err, x.err)

\* DELETE FROM user_entities WHERE id=?
DelUserEntity(rows, id, fail) ==
    IF fail = 1 THEN Fails(rows, "dberr")
    ELSE Outcome({r \in rows : r.id # id}, NoRow, "nil", "nil")

----------------------------------------------------------------------------
(* State machine of the account entities *)

\* the record of the most recent call: its arguments, the table before it,
\* and its outcome
Call(op, owner, name, dir, pre, out) ==
    [op |-> op, owner |-> owner, name |-> name, dir |-> dir, pre |-> pre,
     ret |-> out.ret, err |-> out.err, failed |-> out.failed]

NoCall == Call("none", 0, "", "", {}, Outcome({}, NoRow, "nil", "nil"))

WithinBounds(rows) == \A r \in rows : r.id <= MaxId

\* the two callers of the statement-by-statement runs
Procs == {"p", "q"}

\* a caller that is not inside a call
IdleProc ==
    [pc |-> "idle", uid |-> 0, name |-> "", dir |-> "", ents |-> <<>>,
     target |-> NoRow, ret |-> NoRow, err |-> "nil"]

AuxInit ==
    /\ statErr = {}
    /\ user_previous_names = {}
    /\ now = 0
    /\ prev = NoCall
    /\ proc = [p \in Procs |-> IdleProc]

Init ==
    /\ user_entities = {}
    /\ lst_entities = {}
    /\ markers \in SUBSET AbsDirs
    /\ dirs = AbsDirs
    /\ last = NoCall
    /\ AuxInit

CallCreateOrUpdateUserEntityWithPathChangeIn(U, N, P) ==
    /\ last = NoCall
    /\ \E uid \in U, name \in N, p \in P, fail \in FailAt :
      \E ord \in Orders(SelectUserEntities(user_entities, uid)) :
        LET out == CreateOrUpdateUserEntityWithPathChange(
                       user_entities, StatOk(markers, statErr), uid, name, p, ord, fail)
        IN  /\ WithinBounds(out.rows)
            /\ user_entities' = out.rows
            /\ last' = Call("CreateOrUpdateUserEntityWithPathChange",
                            uid, name, p, user_entities, out)
            /\ UNCHANGED <<lst_entities, markers, dirs, aux>>

CallCreateOrUpdateUserEntityWithPathChange ==
    CallCreateOrUpdateUserEntityWithPathChangeIn(Uids, UserNames, RawPaths)

CallLocateUserEntityIn(U, P) ==
    /\ last = NoCall
    /\ \E uid \in U, p \in P, fail \in FailAt :
      \E ord \in Orders(SelectUserEntities(user_entities, uid)) :
        LET out == LocateUserEntity(user_entities, StatOk(markers, statErr), uid, p, ord, fail)
        IN  /\ user_entities' = out.rows
            /\ last' = Call("LocateUserEntity", uid, "", p, user_entities, out)
            /\ UNCHANGED <<lst_entities, markers, dirs, aux>>

CallLocateUserEntity ==
    CallLocateUserEntityIn(Uids, RawPaths)

CallCreateUserEntityIn(U, N, P) ==
    /\ last = NoCall
    /\ \E uid \in U, name \in N, p \in P, fail \in 0 .. 1 :
        LET out == CreateUserEntity(user_entities, uid, name, p, fail)
        IN  /\ WithinBounds(out.rows)
            /\ user_entities' = out.rows
            /\ last' = Call("CreateUserEntity", uid, name, p, user_entities, out)
            /\ UNCHANGED <<lst_entities, markers, dirs, aux>>

CallCreateUserEntity ==
    CallCreateUserEntityIn(Uids, UserNames, RawPaths)

CallDelUserEntity ==
    /\ last = NoCall
    /\ \E id \in 1 .. MaxId, fail \in 0 .. 1 :
        LET out == DelUserEntity(user_entities, id, fail)
        IN  /\ user_entities' = out.rows
            /\ last' = Call("DelUserEntity", id, "", "", user_entities, out)
            /\ UNCHANGED <<lst_entities, markers, dirs, aux>>

\* the orchestrator writes or removes the .user file of a directory
TouchMarkerIn(D) ==
    /\ last = NoCall
    /\ \E d \in D :
        /\ markers' = IF d \in markers THEN markers \ {d} ELSE markers \cup {d}
        /\ UNCHANGED last
        /\ UNCHANGED <<user_entities, lst_entities, dirs, aux>>

TouchMarker ==
    TouchMarkerIn(AbsDirs)

\* the caller takes the returned record and error; the next call may start
Return ==
    /\ last # NoCall
    /\ last' = NoCall
    /\ UNCHANGED <<user_entities, lst_entities, markers, dirs, aux>>

Next ==
    \/ CallCreateOrUpdateUserEntityWithPathChange
    \/ CallLocateUserEntity
    \/ CallCreateUserEntity
    \/ CallDelUserEntity
    \/ TouchMarker
    \/ Return

Spec == Init /\ [][Next]_vars

----------------------------------------------------------------------------
(* The list-entity statements and functions *)

\* SELECT * FROM lst_entities WHERE lst_id=?
SelectLstEntities(rows, lid) == {r \in rows : r.lst_id = lid}

\* SELECT * FROM lst_entities WHERE lst_id=? AND parent_dir=?
GetLstEntityByDir(rows, lid, dir) ==
    {r \in rows : r.lst_id = lid /\ NoCaseEq(r.parent_dir, dir)}

\* UNIQUE (lst_id, parent_dir) rejects giving row `id` the directory `dir`
LstUpdateViolates(rows, id, dir) ==
    \E r \in rows, o \in rows :
        r.id = id /\ o.id # id /\ o.lst_id = r.lst_id /\ NoCaseEq(o.parent_dir, dir)

\* UNIQUE (lst_id, parent_dir) rejects a new row (lid, dir)
LstInsertViolates(rows, lid, dir) ==
    \E o \in rows : o.lst_id = lid /\ NoCaseEq(o.parent_dir, dir)

\* UPDATE lst_entities SET parent_dir=? WHERE id=?
SetLstDir(rows, id, dir) ==
    {IF r.id = id THEN [r EXCEPT !.parent_dir = dir] ELSE r : r \in rows}

\* db.Exec of UPDATE lst_entities SET parent_dir=? WHERE id=?
ExecSetLstDir(rows, id, dir, ioerr) ==
    IF ioerr THEN Exec(rows, "dberr")
    ELSE IF LstUpdateViolates(rows, id, dir) THEN Exec(rows, "constraint")
    ELSE Exec(SetLstDir(rows, id, dir), "nil")

\* db.NamedExec of INSERT INTO lst_entities(lst_id, name, parent_dir)
ExecInsertLst(rows, lid, name, dir, ioerr) ==
    IF ioerr THEN Exec(rows, "dberr")
    ELSE IF LstInsertViolates(rows, lid, dir) THEN Exec(rows, "constraint")
    ELSE Exec(rows \cup {LstRow(NewRowId(rows), lid, name, dir)}, "nil")

\* db.NamedExec of INSERT INTO lst_entities(id, lst_id, name, parent_dir):
\* a NULL id takes the next rowid, a given id must not be a stored PRIMARY KEY
ExecInsertLstWithId(rows, id, lid, name, dir, ioerr) ==
    IF ioerr THEN Exec(rows, "dberr")
    ELSE IF LstInsertViolates(rows, lid, dir) \/ \E o \in rows : o.id = id
         THEN Exec(rows, "constraint")
    ELSE Exec(rows \cup {LstRow(IF id = NULL THEN NewRowId(rows) ELSE id, lid, name, dir)},
              "nil")

\* a match that takes the first row of the list whatever its name
MatchLstByName_First(ord, name) == IF Len(ord) > 0 THEN 1 ELSE 0

\* lines 117-132: the first row whose name equals the candidate's, ignoring case
MatchLstByName(ord, name) ==
    FirstIndex([i \in DOMAIN ord |-> EqualFold(ord[i].name, name)])

CreateOrUpdateLstEntityWithPathChange(rows, lid, name, parentDir, ord, fail) ==
    LET absPath == Abs(parentDir)
        i == MatchLstByName(ord, name)
    IN  IF fail = 1 THEN Fails(rows, "dberr")
        ELSE IF i > 0
             THEN LET x == ExecSetLstDir(rows, ord[i].id, absPath, fail = 2)
                  IN  IF x.err # "nil" THEN Fails(rows, x.err)
                      ELSE Outcome(x.rows, [ord[i] EXCEPT !.parent_dir = absPath],
                                   "nil", "nil")
        ELSE LET x == ExecInsertLst(rows, lid, name, absPath, fail = 2)
             IN  IF x.err # "nil" THEN Fails(rows, x.err)
                 ELSE Outcome(x.rows, LstRow(NewRowId(rows), lid, name, absPath),
                              "nil", "nil")

\* a match that takes the first row without the os.Stat of the target
MatchLstByDir_NoStat(ord, ds, absPath) == IF Len(ord) > 0 THEN 1 ELSE 0

\* lines 477-493: the first row for which os.Stat(absPath) succeeds
MatchLstByDir(ord, ds, absPath) ==
    FirstIndex([i \in DOMAIN ord |-> StatDir(ds, absPath)])

LocateLstEntity(rows, ds, lid, parentDir, ord, fail) ==
    LET absPath == Abs(parentDir)
        result == GetLstEntityByDir(rows, lid, absPath)
        i == MatchLstByDir(ord, ds, absPath)
    IN  IF fail = 1 THEN Fails(rows, "dberr")
        ELSE IF result # {}
             THEN Outcome(rows, CHOOSE r \in result : TRUE, "nil", "nil")
        ELSE IF fail = 2 THEN Fails(rows, "dberr")
        ELSE IF i > 0
             THEN LET x == ExecSetLstDir(rows, ord[i].id, absPath, fail = 3)
                  IN  Outcome(x.rows, [ord[i] EXCEPT !.parent_dir = absPath],
                              "nil", x.err)
        ELSE Outcome(rows, NoRow, "nil", "nil")

\* the plain insert; it returns only an error
CreateLstEntity(rows, id, lid, name, parentDir, fail) ==
    LET x == ExecInsertLstWithId(rows, id, lid, name, Abs(parentDir), fail = 1)
    IN  Outcome(x.rows, NoRow, x.err, x.err)

\* DELETE FROM lst_entities WHERE id=?
DelLstEntity(rows, id, fail) ==
    IF fail = 1 THEN Fails(rows, "dberr")
    ELSE Outcome({r \in rows : r.id # id}, NoRow, "nil", "nil")

\* UPDATE lst_entities SET name=? WHERE id=?
UpdateLstEntity(rows, id, name, fail) ==
    IF fail = 1 THEN Fails(rows, "dberr")
    ELSE Outcome({IF r.id = id THEN [r EXCEPT !.name = name] ELSE r : r \in rows},
                 NoRow, "nil", "nil")

----------------------------------------------------------------------------
(* State machine of the list entities *)

InitLst ==
    /\ user_entities = {}
    /\ lst_entities = {}
    /\ markers = {}
    /\ dirs \in SUBSET LstDirs
    /\ last = NoCall
    /\ AuxInit

CallCreateOrUpdateLstEntityWithPathChangeIn(U, N, P) ==
    /\ last = NoCall
    /\ \E lid \in U, name \in N, p \in P, fail \in 0 .. 2 :
      \E ord \in Orders(SelectLstEntities(lst_entities, lid)) :
        LET out == CreateOrUpdateLstEntityWithPathChange(
                       lst_entities, lid, name, p, ord, fail)
        IN  /\ WithinBounds(out.rows)
            /\ lst_entities' = out.rows
            /\ last' = Call("CreateOrUpdateLstEntityWithPathChange",
                            lid, name, p, lst_entities, out)
            /\ UNCHANGED <<user_entities, markers, dirs, aux>>

CallCreateOrUpdateLstEntityWithPathChange ==
    CallCreateOrUpdateLstEntityWithPathChangeIn(Uids, LstNames, LstPaths)

CallLocateLstEntityIn(U, P) ==
    /\ last = NoCall
    /\ \E lid \in U, p \in P, fail \in FailAt :
      \E ord \in Orders(SelectLstEntities(lst_entities, lid)) :
        LET out == LocateLstEntity(lst_entities, StatOk(dirs, statErr), lid, p, ord, fail)
        IN  /\ lst_entities' = out.rows
            /\ last' = Call("LocateLstEntity", lid, "", p, lst_entities, out)
            /\ UNCHANGED <<user_entities, markers, dirs, aux>>

CallLocateLstEntity ==
    CallLocateLstEntityIn(Uids, LstPaths)

CallCreateLstEntityIn(U, N, P) ==
    /\ last = NoCall
    /\ \E id \in {NULL} \cup (1 .. MaxId), lid \in U, name \in N,
          p \in P, fail \in 0 .. 1 :
        LET out == CreateLstEntity(lst_entities, id, lid, name, p, fail)
        IN  /\ WithinBounds(out.rows)
            /\ lst_entities' = out.rows
            /\ last' = Call("CreateLstEntity", lid, name, p, lst_entities, out)
            /\ UNCHANGED <<user_entities, markers, dirs, aux>>

CallCreateLstEntity ==
    CallCreateLstEntityIn(Uids, LstNames, LstPaths)

CallDelLstEntity ==
    /\ last = NoCall
    /\ \E id \in 1 .. MaxId, fail \in 0 .. 1 :
        LET out == DelLstEntity(lst_entities, id, fail)
        IN  /\ lst_entities' = out.rows
            /\ last' = Call("DelLstEntity", id, "", "", lst_entities, out)
            /\ UNCHANGED <<user_entities, markers, dirs, aux>>

CallUpdateLstEntityIn(N) ==
    /\ last = NoCall
    /\ \E id \in 1 .. MaxId, name \in N, fail \in 0 .. 1 :
        LET out == UpdateLstEntity(lst_entities, id, name, fail)
        IN  /\ lst_entities' = out.rows
            /\ last' = Call("UpdateLstEntity", id, name, "", lst_entities, out)
            /\ UNCHANGED <<user_entities, markers, dirs, aux>>

CallUpdateLstEntity ==
    CallUpdateLstEntityIn(LstNames)

\* the orchestrator creates or removes a download directory
TouchDirIn(D) ==
    /\ last = NoCall
    /\ \E d \in D :
        /\ dirs' = IF d \in dirs THEN dirs \ {d} ELSE dirs \cup {d}
        /\ UNCHANGED <<user_entities, lst_entities, markers, last, aux>>

TouchDir ==
    TouchDirIn(LstDirs)

NextLst ==
    \/ CallCreateOrUpdateLstEntityWithPathChange
    \/ CallLocateLstEntity
    \/ CallCreateLstEntity
    \/ CallDelLstEntity
    \/ CallUpdateLstEntity
    \/ TouchDir
    \/ Return

SpecLst == InitLst /\ [][NextLst]_vars

\* ---------------------------------------------------------------------
\* Both tables in one store, with fewer inputs
\* ---------------------------------------------------------------------

OneUid == {1}
OneName == {"n"}
FewDirs == {"/a", "/A", "/b"}
FewPaths == {"/a", "/A", "b"}

InitAll ==
    /\ user_entities = {}
    /\ lst_entities = {}
    /\ markers \in SUBSET {"/a", "/b"}
    /\ dirs \in SUBSET {"/a", "/b"}
    /\ last = NoCall
    /\ AuxInit

NextAll ==
    \/ CallCreateOrUpdateUserEntityWithPathChangeIn(OneUid, OneName, FewPaths)
    \/ CallLocateUserEntityIn(OneUid, FewPaths)
    \/ CallCreateUserEntityIn(OneUid, OneName, FewPaths)
    \/ CallDelUserEntity
    \/ CallCreateOrUpdateLstEntityWithPathChangeIn(OneUid, OneName, FewPaths)
    \/ CallLocateLstEntityIn(OneUid, FewPaths)
    \/ CallCreateLstEntityIn(OneUid, OneName, FewPaths)
    \/ CallDelLstEntity
    \/ CallUpdateLstEntityIn(OneName)
    \/ TouchMarkerIn(FewDirs)
    \/ TouchDirIn(FewDirs)
    \/ Return

SpecAll == InitAll /\ [][NextAll]_vars

----------------------------------------------------------------------------
(* Properties of the account-entity functions (checked under Spec) *)
(* `last` holds the most recent call until the caller takes the result, so *)
(* a property of a call is an invariant over last, the table before the    *)
(* call (last.pre) and the table after it.                                  *)

IsCreateUser == last.op = "CreateOrUpdateUserEntityWithPathChange"
IsLocateUser == last.op = "LocateUserEntity"
IsCreateLst == last.op = "CreateOrUpdateLstEntityWithPathChange"
IsLocateLst == last.op = "LocateLstEntity"

\* the canonical candidate directory of the last call
Cand == Abs(last.dir)

\* a statement of the last call met an I/O error of the store
IOFault == last.failed = "dberr"

\* the rows the owner of the last call had before it
PreOwnUser == {r \in last.pre : r.user_id = last.owner}

\* the rows of the owner whose directory equals the candidate under NOCASE
PreExactUser == {r \in PreOwnUser : NoCaseEq(r.parent_dir, Cand)}

\* the rows of the owner whose stored directory carries the marker file
PreMarkedUser == {r \in PreOwnUser : StatMarker(markers, r.parent_dir)}

Ids(rows) == {r.id : r \in rows}

\* C1 (as claimed): when a row (a, d) is stored and d has no marker file,
\* CreateOrUpdateUserEntityWithPathChange(a, d) returns that row without
\* error and the table is the same before and after the call.
C1_CreateReturnsExactMatch ==
    (IsCreateUser /\ ~IOFault /\ PreExactUser # {} /\ ~StatMarker(markers, Cand))
        => /\ last.err = "nil"
           /\ last.ret \in PreExactUser
           /\ user_entities = last.pre

\* C2: when a row (a, d) is stored and no directory has the marker file,
\* LocateUserEntity(a, d) leaves the table as it was, and unless the store
\* fails it returns exactly that row with no error.
C2_LocateExactMatchIdempotent ==
    (IsLocateUser /\ PreExactUser # {} /\ markers = {})
        => /\ user_entities = last.pre
           /\ ~IOFault => (last.err = "nil" /\ PreExactUser = {last.ret})
           /\ IOFault => (last.err = "dberr" /\ last.ret = NoRow)

\* C2 witness: an exact match found through the case-insensitive comparison,
\* in a table that also holds another row
C2_Witness ==
    /\ IsLocateUser /\ markers = {} /\ ~IOFault
    /\ last.ret \in PreExactUser
    /\ last.ret.parent_dir # Cand
    /\ Cardinality(last.pre) = 2

\* C3: when account a has exactly one row, at d1, and the marker file is at
\* another directory d2, LocateUserEntity(a, d2) whose statements succeed
\* stores d2 in that row, returns it with its id, and a still has one row;
\* no other row changes.
C3_MarkerConfirmedRelocation ==
    \A r \in PreOwnUser :
        (IsLocateUser /\ ~IOFault /\ PreOwnUser = {r} /\ r.parent_dir # Cand
            /\ StatMarker(markers, Cand))
        => /\ last.err = "nil"
           /\ last.ret = [r EXCEPT !.parent_dir = Cand]
           /\ user_entities = (last.pre \ {r}) \cup {last.ret}
           /\ Cardinality(SelectUserEntities(user_entities, last.owner)) = 1

\* C3 witness: the single row of the account moved to a marked directory
\* that is a different directory also under NOCASE
C3_Witness ==
    /\ IsLocateUser /\ ~IOFault /\ StatMarker(markers, Cand)
    /\ \E r \in PreOwnUser :
        /\ PreOwnUser = {r}
        /\ ~NoCaseEq(r.parent_dir, Cand)
        /\ last.ret.id = r.id
    /\ last.ret \in user_entities

\* C4: when a row of account a sits at a directory that carries the marker,
\* d_new has no marker and no row (a, d_new) is stored, LocateUserEntity(a,
\* d_new) whose statements succeed moves one row whose stored directory has
\* the marker to d_new and returns it with its id; a has as many rows as
\* before and no other row changes.
C4_FallbackMarkerScan ==
    (IsLocateUser /\ ~IOFault /\ PreMarkedUser # {} /\ ~StatMarker(markers, Cand)
        /\ PreExactUser = {})
        => /\ last.err = "nil"
           /\ \E r \in PreMarkedUser :
                /\ last.ret = [r EXCEPT !.parent_dir = Cand]
                /\ user_entities = (last.pre \ {r}) \cup {last.ret}
           /\ Cardinality(SelectUserEntities(user_entities, last.owner))
                = Cardinality(PreOwnUser)

\* C4 witness: the scan passed over an unmarked row of the account and moved
\* the marked one
C4_Witness ==
    /\ IsLocateUser /\ ~IOFault /\ ~StatMarker(markers, Cand) /\ PreExactUser = {}
    /\ Cardinality(PreOwnUser) = 2
    /\ Cardinality(PreMarkedUser) = 1
    /\ last.ret.id \in Ids(PreMarkedUser)
    /\ last.ret \in user_entities

\* C5: when account a has no row and no directory has the marker file,
\* CreateOrUpdateUserEntityWithPathChange(a, d) whose statements succeed
\* inserts one row (a, name, Abs(d)) under an id no stored row has and
\* returns it; a has one row more and no other row changes.
C5_CreateInsertsFreshRow ==
    (IsCreateUser /\ ~IOFault /\ PreOwnUser = {} /\ markers = {})
        => /\ last.err = "nil"
           /\ last.ret.id \notin Ids(last.pre)
           /\ last.ret = UserRow(last.ret.id, last.owner, last.name, Cand)
           /\ user_entities = last.pre \cup {last.ret}
           /\ Cardinality(user_entities) = Cardinality(last.pre) + 1
           /\ Cardinality(Ids(user_entities)) = Cardinality(user_entities)

\* C5 witness: the new row is inserted from a relative path into a table
\* that holds a row of another account
C5_Witness ==
    /\ IsCreateUser /\ ~IOFault /\ PreOwnUser = {} /\ markers = {}
    /\ last.pre # {}
    /\ last.dir # Cand
    /\ last.ret \in user_entities

\* C6 (as claimed): whenever a statement issued by a reconciliation call
\* fails, the call returns an error and no record.
C6_StoreErrorsPropagate ==
    ((IsCreateUser \/ IsLocateUser \/ IsCreateLst \/ IsLocateLst)
        /\ last.failed # "nil")
        => (last.err # "nil" /\ last.ret = NoRow)

\* C7 (as claimed): when the account has two or more rows and the marker is
\* at the candidate directory or at several stored directories, the call
\* ends without error and returns one of the account's rows, unless the
\* store meets an I/O error.
C7_AmbiguityIsNoError ==
    ((IsCreateUser \/ IsLocateUser) /\ ~IOFault
        /\ Cardinality(PreOwnUser) >= 2
        /\ (StatMarker(markers, Cand) \/ Cardinality(PreMarkedUser) >= 2))
        => (last.err = "nil" /\ last.ret.id \in Ids(PreOwnUser))

----------------------------------------------------------------------------
(* Properties of the list-entity functions (checked under SpecLst) *)

\* the rows the list of the last call had before it
PreOwnLst == {r \in last.pre : r.lst_id = last.owner}

\* the rows of the list whose directory equals the candidate under NOCASE
PreExactLst == {r \in PreOwnLst : NoCaseEq(r.parent_dir, Cand)}

\* the rows of the list whose name equals the candidate's name, ignoring case
PreNamedLst == {r \in PreOwnLst : EqualFold(r.name, last.name)}

\* the rows stored before the last call whose directory it changed
MovedLst ==
    {r \in last.pre :
        \E n \in lst_entities : n.id = r.id /\ n.parent_dir # r.parent_dir}

\* C8 (as claimed): when a row (l, d) is stored,
\* CreateOrUpdateLstEntityWithPathChange(l, name, d) returns that row
\* without error and adds no row, whatever the name and the other rows.
C8_CreateLstReturnsExactMatch ==
    (IsCreateLst /\ ~IOFault /\ PreExactLst # {})
        => /\ last.err = "nil"
           /\ last.ret.id \in Ids(PreExactLst)
           /\ Ids(lst_entities) = Ids(last.pre)

\* C9 (as claimed): CreateOrUpdateLstEntityWithPathChange changes the
\* directory of a stored row only if the candidate directory exists on disk
\* and the row's name equals the candidate's name ignoring case; when no row
\* of the list meets both conditions, no stored row changes and one row is
\* inserted.
C9_RewriteNeedsDirAndName ==
    (IsCreateLst /\ ~IOFault)
        => /\ \A r \in MovedLst :
                StatDir(dirs, Cand) /\ EqualFold(r.name, last.name)
           /\ (~StatDir(dirs, Cand) \/ PreNamedLst = {})
                => /\ last.pre \subseteq lst_entities
                   /\ Cardinality(lst_entities) = Cardinality(last.pre) + 1

\* C9 (amended): CreateOrUpdateLstEntityWithPathChange changes the directory
\* of a stored row only if the row belongs to the list and its name equals
\* the candidate's name ignoring case, whether or not the candidate
\* directory exists; the changed row gets the candidate directory, is the
\* returned record and is the only row changed.  When no row of the list
\* has the candidate's name, no stored row changes, and the call either
\* inserts exactly one row (list, name, candidate directory) under an unused
\* id and returns it, or returns an error and leaves the table as it was.
C9_RewriteNeedsNameOnly ==
    IsCreateLst
        => /\ \A r \in MovedLst :
                /\ r \in PreNamedLst
                /\ last.err = "nil"
                /\ last.ret = [r EXCEPT !.parent_dir = Cand]
                /\ lst_entities = (last.pre \ {r}) \cup {last.ret}
           /\ PreNamedLst = {}
                => /\ last.pre \subseteq lst_entities
                   /\ last.err = "nil"
                        => /\ last.ret.id \notin Ids(last.pre)
                           /\ last.ret = LstRow(last.ret.id, last.owner, last.name, Cand)
                           /\ lst_entities = last.pre \cup {last.ret}
                   /\ last.err # "nil"
                        => (last.ret = NoRow /\ lst_entities = last.pre)

\* C9 witness: a row was moved to a candidate directory that does not exist
\* on disk, matched by a name that differs from the candidate's in case
C9_Witness ==
    /\ IsCreateLst
    /\ ~StatDir(dirs, Cand)
    /\ \E r \in MovedLst : r.name # last.name /\ last.ret.id = r.id

Step(p, pc, ents, target) ==
    [proc EXCEPT ![p].pc = pc, ![p].ents = ents, ![p].target = target]

\* what caller p returns
Done(p, ret, err) ==
    [proc EXCEPT ![p].pc = "done", ![p].ret = ret, ![p].err = err]

\* lines 22-30: the call canonicalises the path and looks for the .user file
\* at the candidate
Enter(p) ==
    /\ last = NoCall
    /\ proc[p].pc = "idle"
    /\ \E name \in UserNames, d \in FewPaths :
          proc' = [proc EXCEPT
                     ![p].pc = IF StatMarker(StatOk(markers, statErr), Abs(d))
                               THEN "select1" ELSE "select2",
                     ![p].uid = 1, ![p].name = name, ![p].dir = Abs(d)]
    /\ UNCHANGED <<user_entities, lst_entities, markers, dirs, last,
                   statErr, user_previous_names, now, prev>>

\* lines 32-41: the SELECT of the marker-confirmed phase; entities[0] is taken
SelectMarked(p) ==
    /\ proc[p].pc = "select1"
    /\ \E ord \in Orders(SelectUserEntities(user_entities, proc[p].uid)) :
          proc' = IF Len(ord) > 0 THEN Step(p, "update", ord, ord[1])
                  ELSE Step(p, "select2", ord, NoRow)
    /\ UNCHANGED <<user_entities, lst_entities, markers, dirs, last,
                   statErr, user_previous_names, now, prev>>

\* lines 57-69: the SELECT of the scan and the os.Stat of each stored directory
SelectScan(p) ==
    /\ proc[p].pc = "select2"
    /\ \E ord \in Orders(SelectUserEntities(user_entities, proc[p].uid)) :
          LET i == MatchUserByMarker(ord, StatOk(markers, statErr))
          IN  proc' = IF i > 0 THEN Step(p, "update", ord, ord[i])
                      ELSE Step(p, "insert", ord, NoRow)
    /\ UNCHANGED <<user_entities, lst_entities, markers, dirs, last,
                   statErr, user_previous_names, now, prev>>

\* lines 43-54 and 72-81: the UPDATE of the row read earlier, and the return
UpdateStep(p) ==
    /\ proc[p].pc = "update"
    /\ LET e == proc[p].target
           x == ExecSetUserDirName(user_entities, e.id, proc[p].dir, proc[p].name, FALSE)
       IN  /\ user_entities' = x.rows
           /\ proc' = IF x.err # "nil" THEN Done(p, NoRow, x.err)
                       ELSE Done(p, [e EXCEPT !.parent_dir = proc[p].dir,
                                              !.name = proc[p].name], "nil")
    /\ UNCHANGED <<lst_entities, markers, dirs, last,
                   statErr, user_previous_names, now, prev>>

\* lines 85-97: the INSERT and the return
InsertStep(p) ==
    /\ proc[p].pc = "insert"
    /\ LET x == ExecInsertUser(user_entities, proc[p].uid, proc[p].name, proc[p].dir, FALSE)
       IN  /\ WithinBounds(x.rows)
           /\ user_entities' = x.rows
           /\ proc' = IF x.err # "nil" THEN Done(p, NoRow, x.err)
                       ELSE Done(p, UserRow(NewRowId(user_entities), proc[p].uid,
                                            proc[p].name, proc[p].dir), "nil")
    /\ UNCHANGED <<lst_entities, markers, dirs, last,
                   statErr, user_previous_names, now, prev>>

\* rows are stored by CreateUserEntity before the two callers start
Seed ==
    /\ \A p \in Procs : proc[p].pc = "idle"
    /\ CallCreateUserEntityIn(OneUid, OneName, FewPaths)

InitRace ==
    /\ user_entities = {}
    /\ lst_entities = {}
    /\ markers \in SUBSET {"/a", "/b"}
    /\ dirs = {}
    /\ last = NoCall
    /\ AuxInit

NextRace ==
    \/ Seed
    \/ Return
    \/ \E p \in Procs : Enter(p)
    \/ \E p \in Procs : SelectMarked(p)
    \/ \E p \in Procs : SelectScan(p)
    \/ \E p \in Procs : UpdateStep(p)
    \/ \E p \in Procs : InsertStep(p)

SpecRace == InitRace /\ [][NextRace]_vars

\* ---------------------------------------------------------------------
\* A filesystem on which os.Stat can fail for a reason other than absence
\* ---------------------------------------------------------------------

TwoDirs == {"/a", "/b"}
TwoPaths == {"/a", "b"}

InitFs ==
    /\ user_entities = {}
    /\ lst_entities = {}
    /\ markers \in SUBSET TwoDirs
    /\ dirs \in SUBSET TwoDirs
    /\ last = NoCall
    /\ statErr \in SUBSET TwoDirs
    /\ user_previous_names = {}
    /\ now = 0
    /\ prev = NoCall
    /\ proc = [p \in Procs |-> IdleProc]

NextFs ==
    \/ CallCreateOrUpdateUserEntityWithPathChangeIn(OneUid, OneName, TwoPaths)
    \/ CallLocateUserEntityIn(OneUid, TwoPaths)
    \/ CallCreateLstEntityIn(OneUid, OneName, TwoPaths)
    \/ CallLocateLstEntityIn(OneUid, TwoPaths)
    \/ Return

SpecFs == InitFs /\ [][NextFs]_vars

\* ---------------------------------------------------------------------
\* Rows whose latest_release_time and media_count have been set
\* ---------------------------------------------------------------------

\* UPDATE user_entities SET latest_release_time=?, media_count=? WHERE id=?
UpdateUserEntityTweetStat(rows, eid, baseline, count, fail) ==
    IF fail = 1 THEN Fails(rows, "dberr")
    ELSE Outcome({IF r.id = eid
                  THEN [r EXCEPT !.latest_release_time = baseline, !.media_count = count]
                  ELSE r : r \in rows},
                 NoRow, "nil", "nil")

CallUpdateUserEntityTweetStat ==
    /\ last = NoCall
    /\ \E eid \in 1 .. MaxId, fail \in 0 .. 1 :
          LET out == UpdateUserEntityTweetStat(user_entities, eid, 1, 1, fail)
          IN  /\ user_entities' = out.rows
              /\ last' = Call("UpdateUserEntityTweetStat", eid, "", "", user_entities, out)
    /\ UNCHANGED <<lst_entities, markers, dirs, aux>>

InitFields ==
    /\ user_entities = {}
    /\ lst_entities = {}
    /\ markers \in SUBSET TwoDirs
    /\ dirs \in SUBSET TwoDirs
    /\ last = NoCall
    /\ AuxInit

NextFields ==
    \/ CallCreateOrUpdateUserEntityWithPathChangeIn(Uids, UserNames, TwoPaths)
    \/ CallLocateUserEntityIn(Uids, TwoPaths)
    \/ CallUpdateUserEntityTweetStat
    \/ CallCreateOrUpdateLstEntityWithPathChangeIn(OneUid, OneName, TwoPaths)
    \/ CallLocateLstEntityIn(OneUid, TwoPaths)
    \/ Return

SpecFields == InitFields /\ [][NextFields]_vars

\* ---------------------------------------------------------------------
\* The history of names
\* ---------------------------------------------------------------------

NameRow(id, uid, screenName, name, date) ==
    [id |-> id, uid |-> uid, screen_name |-> screenName, name |-> name,
     record_date |-> date]

\* a recording that keeps one row per account and overwrites it
RecordUserPreviousName_Upsert(rows, uid, name, screenName, t, fail) ==
    IF fail = 1 THEN Fails(rows, "dberr")
    ELSE Outcome({r \in rows : r.uid # uid}
                     \cup {NameRow(NewRowId(rows), uid, screenName, name, t)},
                 NoRow, "nil", "nil")

\* INSERT INTO user_previous_names(uid, screen_name, name, record_date);
\* t is the reading of time.Now()
RecordUserPreviousName(rows, uid, name, screenName, t, fail) ==
    IF fail = 1 THEN Fails(rows, "dberr")
    ELSE Outcome(rows \cup {NameRow(NewRowId(rows), uid, screenName, name, t)},
                 NoRow, "nil", "nil")

CallRecordUserPreviousName ==
    /\ last = NoCall
    /\ \E uid \in Uids, name \in OneName, fail \in 0 .. 1 :
          LET out == RecordUserPreviousName(user_previous_names, uid, name, "s", now, fail)
          IN  /\ \A r \in out.rows : r.id <= MaxHist
              /\ user_previous_names' = out.rows
              /\ last' = Call("RecordUserPreviousName", uid, name, "s",
                              user_previous_names, out)
    /\ UNCHANGED <<user_entities, lst_entities, markers, dirs, statErr, now, prev, proc>>

\* time passes: the clock that time.Now() reads does not run backwards
Tick ==
    /\ last = NoCall
    /\ now < MaxTime
    /\ now' = now + 1
    /\ UNCHANGED <<user_entities, lst_entities, markers, dirs, last,
                   statErr, user_previous_names, prev, proc>>

InitHist ==
    /\ user_entities = {}
    /\ lst_entities = {}
    /\ markers \in SUBSET {"/a"}
    /\ dirs = {}
    /\ last = NoCall
    /\ AuxInit

NextHist ==
    \/ CallRecordUserPreviousName
    \/ Tick
    \/ CallCreateOrUpdateUserEntityWithPathChangeIn(OneUid, OneName, TwoPaths)
    \/ CallDelUserEntity
    \/ Return

SpecHist == InitHist /\ [][NextHist]_vars

\* ---------------------------------------------------------------------
\* LocateUserEntity called twice in a row with the same arguments
\* ---------------------------------------------------------------------

\* the second call: same account and path as the call that has just
\* returned, no other call and no change of the filesystem in between
CallLocateUserEntityAgain ==
    /\ last.op = "LocateUserEntity"
    /\ prev = NoCall
    /\ \E fail \in FailAt :
      \E ord \in Orders(SelectUserEntities(user_entities, last.owner)) :
        LET out == LocateUserEntity(user_entities, StatOk(markers, statErr),
                                    last.owner, last.dir, ord, fail)
        IN  /\ user_entities' = out.rows
            /\ prev' = last
            /\ last' = Call("LocateUserEntity", last.owner, "", last.dir,
                            user_entities, out)
    /\ UNCHANGED <<lst_entities, markers, dirs, statErr, user_previous_names, now, proc>>

\* the caller goes on to other things
ReturnBoth ==
    /\ last # NoCall
    /\ last' = NoCall
    /\ prev' = NoCall
    /\ UNCHANGED <<user_entities, lst_entities, markers, dirs,
                   statErr, user_previous_names, now, proc>>

InitTwice ==
    /\ user_entities = {}
    /\ lst_entities = {}
    /\ markers \in SUBSET LstDirs
    /\ dirs = {}
    /\ last = NoCall
    /\ AuxInit

NextTwice ==
    \/ CallCreateUserEntityIn(OneUid, OneName, LstPaths)
    \/ CallLocateUserEntityIn(OneUid, LstPaths)
    \/ CallLocateUserEntityAgain
    \/ TouchMarkerIn(LstDirs)
    \/ ReturnBoth

SpecTwice == InitTwice /\ [][NextTwice]_vars

\* ---------------------------------------------------------------------
\* Claims on both tables
\* ---------------------------------------------------------------------

\* the last call has run all of its statements without an error of the store
NoStoreError == last.failed = "nil"

\* no phase of the last LocateUserEntity has a match: no row of the account
\* at the candidate, no marker file there to vouch for one of its rows, and
\* no marker file at a stored directory of the account
NoUserMatch ==
    /\ PreExactUser = {}
    /\ (~StatMarker(markers, Cand) \/ PreOwnUser = {})
    /\ PreMarkedUser = {}

\* no phase of the last LocateLstEntity has a match: no row of the list at
\* the candidate, and no candidate directory to vouch for one of its rows
NoLstMatch ==
    /\ PreExactLst = {}
    /\ (~StatDir(dirs, Cand) \/ PreOwnLst = {})

\* C11: a LocateUserEntity or LocateLstEntity call whose statements succeed
\* and that matches in no phase returns no row and no error and leaves its
\* table as it was; and every locate call, matching or not, failing or not,
\* leaves the set of row ids of its table as it was.
C11_LocateNeverCreates ==
    /\ IsLocateUser =>
          /\ Ids(user_entities) = Ids(last.pre)
          /\ (~IOFault /\ NoUserMatch) =>
                /\ last.ret = NoRow
                /\ last.err = "nil"
                /\ user_entities = last.pre
    /\ IsLocateLst =>
          /\ Ids(lst_entities) = Ids(last.pre)
          /\ (~IOFault /\ NoLstMatch) =>
                /\ last.ret = NoRow
                /\ last.err = "nil"
                /\ lst_entities = last.pre

\* a locate call on an account that has a row elsewhere, with no marker file
\* anywhere, has returned no row, while the list table holds a row too
C11_Witness ==
    /\ IsLocateUser
    /\ ~IOFault
    /\ NoUserMatch
    /\ PreOwnUser # {}
    /\ lst_entities # {}
    /\ last.ret = NoRow

\* the last call was made on the list table
IsLstOp ==
    last.op \in {"CreateOrUpdateLstEntityWithPathChange", "LocateLstEntity",
                 "CreateLstEntity", "DelLstEntity", "UpdateLstEntity"}

\* the table the last call was made on, as it is now
TableOfLast == IF IsLstOp THEN lst_entities ELSE user_entities

\* no two rows have the same id, and no two rows of one account have
\* directories that are equal under NOCASE
UniqueUserRows(rows) ==
    \A r \in rows, o \in rows :
        r # o => /\ r.id # o.id
                 /\ ~(r.user_id = o.user_id /\ NoCaseEq(r.parent_dir, o.parent_dir))

\* the same for the rows of one list
UniqueLstRows(rows) ==
    \A r \in rows, o \in rows :
        r # o => /\ r.id # o.id
                 /\ ~(r.lst_id = o.lst_id /\ NoCaseEq(r.parent_dir, o.parent_dir))

\* C12: in every reachable state no two user_entities rows share
\* (user_id, parent_dir) and no two lst_entities rows share
\* (lst_id, parent_dir), directories compared without regard to case; a
\* statement that the constraint rejects leaves the table as it was, and a
\* plain insert of a pair that is already stored returns the constraint
\* error.
C12_UniqueOwnerDir ==
    /\ UniqueUserRows(user_entities)
    /\ UniqueLstRows(lst_entities)
    /\ last.failed = "constraint" => TableOfLast = last.pre
    /\ (last.op = "CreateUserEntity" /\ ~IOFault /\ PreExactUser # {}) =>
          last.err = "constraint"
    /\ (last.op = "CreateLstEntity" /\ ~IOFault /\ PreExactLst # {}) =>
          last.err = "constraint"

\* the insert of ("/A") for an account stored at "/a" has been rejected,
\* while the list table holds two rows
C12_Witness ==
    /\ last.op = "CreateUserEntity"
    /\ last.dir = "/A"
    /\ \E r \in PreOwnUser : r.parent_dir = "/a"
    /\ last.err = "constraint"
    /\ user_entities = last.pre
    /\ Cardinality(lst_entities) = 2

\* both callers have returned
BothDone == \A p \in Procs : proc[p].pc = "done"

\* C13 (as claimed): when two CreateOrUpdateUserEntityWithPathChange calls
\* for one account run interleaved statement by statement, the table never
\* holds two rows with the same (user_id, parent_dir), and once both have
\* returned at least one of them has returned a record and no error.
C13_RaceOutcome ==
    /\ UniqueUserRows(user_entities)
    /\ BothDone => \E p \in Procs : proc[p].err = "nil" /\ proc[p].ret # NoRow

\* C14 (as claimed): when the os.Stat of a reconciliation call fails with an
\* error other than "not exist" (the .user file at the candidate for the
\* account functions, the candidate directory for LocateLstEntity once the
\* exact match has found nothing and the list has a row), the call returns
\* that error.
C14_StatErrorsPropagate ==
    /\ ((IsCreateUser \/ IsLocateUser) /\ Cand \in statErr) =>
          last.err = "fserr"
    /\ (IsLocateLst /\ last.failed = "nil" /\ PreExactLst = {} /\ PreOwnLst # {}
          /\ Cand \in statErr) =>
          last.err = "fserr"

\* the last call was one of the four reconciliation functions
IsRecon == IsCreateUser \/ IsLocateUser \/ IsCreateLst \/ IsLocateLst

\* the owner id of a row of either table
OwnerOf(r) == IF "lst_id" \in DOMAIN r THEN r.lst_id ELSE r.user_id

\* row o is row r but for its directory
SameButDir(r, o) == o = [r EXCEPT !.parent_dir = o.parent_dir]

\* row o is row r but for its directory and its name
SameButDirName(r, o) == o = [r EXCEPT !.parent_dir = o.parent_dir, !.name = o.name]

\* C15 (as claimed): after a reconciliation call every row that was stored
\* before it is still stored with every field but parent_dir as it was, and
\* the rows of other owners are as they were.
C15_OnlyDirectoryChanges ==
    IsRecon =>
        \A r \in last.pre : \E o \in TableOfLast :
            /\ o.id = r.id
            /\ SameButDir(r, o)
            /\ OwnerOf(r) # last.owner => o = r

\* C15 (amended): after a reconciliation call every row that was stored
\* before it is still stored; the row that
\* CreateOrUpdateUserEntityWithPathChange returns has the caller's name and
\* every field but parent_dir and name as it was; every other row has every
\* field but parent_dir as it was; the rows of other owners are as they were.
C15_OnlyDirectoryAndNameChange ==
    IsRecon =>
        \A r \in last.pre : \E o \in TableOfLast :
            /\ o.id = r.id
            /\ IF IsCreateUser /\ r.id = last.ret.id
               THEN SameButDirName(r, o) /\ o.name = last.name
               ELSE SameButDir(r, o)
            /\ OwnerOf(r) # last.owner => o = r

\* CreateOrUpdateUserEntityWithPathChange has moved and renamed a row whose
\* media_count was set, while another account's row stayed as it was
C15_Witness ==
    /\ IsCreateUser
    /\ \E r \in last.pre :
          /\ r.id = last.ret.id
          /\ r.name # last.name
          /\ r.parent_dir # Cand
          /\ r.media_count # NULL
          /\ last.ret \in user_entities
    /\ \E r \in last.pre : r.user_id # last.owner

\* C18 (as claimed): whenever LocateUserEntity or LocateLstEntity, its
\* statements meeting no I/O error, returns a record and no error, the table
\* holds a row with the returned id, the requested owner and the returned
\* directory.
C18_ReturnedRecordIsStored ==
    ((IsLocateUser \/ IsLocateLst) /\ ~IOFault /\ last.err = "nil"
        /\ last.ret # NoRow) =>
        \E o \in TableOfLast :
            /\ o.id = last.ret.id
            /\ OwnerOf(o) = last.owner
            /\ o.parent_dir = last.ret.parent_dir

\* ---------------------------------------------------------------------
\* Further claims on the account entities
\* ---------------------------------------------------------------------

\* the last CreateOrUpdateUserEntityWithPathChange matches a stored row: in
\* the marker-confirmed phase (a .user file at the candidate and a row of
\* the account) or in the scan (a row of the account whose stored directory
\* has a .user file)
CreateMatches ==
    \/ StatMarker(markers, Cand) /\ PreOwnUser # {}
    \/ PreMarkedUser # {}

\* C16 (as claimed): whenever CreateOrUpdateUserEntityWithPathChange, its
\* statements meeting no I/O error, matches a stored row in the
\* marker-confirmed phase or in the scan, a row of the account is stored
\* afterwards under its old id with the candidate directory and the
\* caller's name, and that row is returned without error.
C16_NamePropagatesWithPath ==
    (IsCreateUser /\ ~IOFault /\ CreateMatches) =>
        /\ last.err = "nil"
        /\ \E r \in PreOwnUser :
              last.ret = [r EXCEPT !.parent_dir = Cand, !.name = last.name]
        /\ last.ret \in user_entities

\* ---------------------------------------------------------------------
\* Claim on the history of names
\* ---------------------------------------------------------------------

\* the step is a RecordUserPreviousName call that returns no error
RecordsName ==
    /\ last = NoCall
    /\ last'.op = "RecordUserPreviousName"
    /\ last'.err = "nil"

\* C17: a RecordUserPreviousName call that returns no error adds exactly one
\* user_previous_names row, for its account and with the clock's reading as
\* record_date; no step of any operation removes or changes a stored row or
\* adds one otherwise; and, the clock not running backwards, rows recorded
\* later (larger id) never carry an earlier record_date.
C17_HistoryAppendOnly ==
    /\ [](\A r \in user_previous_names, o \in user_previous_names :
            r.id < o.id => r.record_date <= o.record_date)
    /\ [][/\ user_previous_names \subseteq user_previous_names'
          /\ IF RecordsName
             THEN \E r \in user_previous_names' :
                    /\ user_previous_names' = user_previous_names \cup {r}
                    /\ r \notin user_previous_names
                    /\ r.id \notin Ids(user_previous_names)
                    /\ r.uid = last'.owner
                    /\ r.record_date = now
             ELSE user_previous_names' = user_previous_names]_vars

\* two names of one account recorded at different times, and an account
\* entity moved in between
C17_Witness ==
    /\ last.op = "RecordUserPreviousName"
    /\ last.err = "nil"
    /\ \E r \in last.pre, o \in user_previous_names \ last.pre :
          r.uid = o.uid /\ r.record_date < o.record_date
    /\ user_entities # {}

\* C19 (as claimed): when a row (a, d) is stored, LocateUserEntity(a, d)
\* whose statements meet no I/O error returns the id of that row, also when
\* d has the .user file and a has other rows; it never returns another row
\* of a.
C19_ExactMatchWins ==
    (IsLocateUser /\ ~IOFault /\ PreExactUser # {}) =>
        /\ last.err = "nil"
        /\ last.ret.id \in Ids(PreExactUser)

\* C20 (as claimed): when LocateUserEntity(a, d) has returned a record and
\* is called again at once, the filesystem unchanged and neither call
\* meeting an I/O error, the second call returns the same row id and leaves
\* the table as the first call left it.
C20_RepeatedLocateIdempotent ==
    (IsLocateUser /\ prev.op = "LocateUserEntity"
        /\ prev.failed # "dberr" /\ ~IOFault
        /\ prev.err = "nil" /\ prev.ret # NoRow) =>
        /\ last.err = "nil"
        /\ last.ret.id = prev.ret.id
        /\ user_entities = last.pre

====
